---- MODULE Spec2Model ----
(***************************************************************************)
(* Model of vuegraf.py: the polling loop that queries the metering API per *)
(* account, extracts usage points and writes them to the database.         *)
(* Times are whole seconds since the epoch (UTC); a local time is the UTC  *)
(* instant plus the account time zone's offset.                            *)
(***************************************************************************)
EXTENDS Integers, Sequences, FiniteSets, TLC

\* ------------------------------------------------------------------ bounds
\* most entries of config['accounts']
MaxAccounts == 2
\* number of loop iterations (ticks) explored
MaxTicks == 3
\* longest usage series returned by get_chart_usage
MaxSeries == 3
\* abnormal answers (an exception, a None) the collaborators give in one run
MaxFaults == 1
\* ticks explored in the runs checked for termination
LiveTicks == 2
\* ticks explored in the runs of the hourly detail (two hours of polling)
MaxHourlyTicks == 125

\* --------------------------------------------------------- program constants
minutesInAnHour == 60
secondsInAMinute == 60
wattsInAKw == 1000
\* min(args.historydays, 720)
MaxHistoryDays == 720
\* timedelta(20): days added to a backfill window's start
HistoryWindowDays == 20
\* pauseEvent.wait(5) between backfill windows
HistoryPauseSecs == 5

SecondsInADay == 24 * 60 * 60
SecondsInAnHour == 60 * 60

\* ------------------------------------------------------------ optional values
\* Python's None is the empty sequence, a present value v is <<v>>.
None == <<>>
Some(v) == <<v>>

Min(a, b) == IF a <= b THEN a ELSE b

\* ------------------------------------------------------------------ datetime
\* dt.replace(hour=00, minute=00, second=00, microsecond=0) on a UTC datetime
Midnight(t) == t - (t % SecondsInADay)
\* dt.replace(hour=23, minute=59, second=59, microsecond=0) on a UTC datetime
EndOfDay(t) == Midnight(t) + (SecondsInADay - 1)
\* dt.replace(minute=00, second=00, microsecond=0)
TopOfHour(t) == t - (t % SecondsInAnHour)
\* the same replacements on a datetime of the zone at offset tz
LocalEndOfDay(t, tz) == EndOfDay(t + tz) - tz
\* dt.replace(hour=23, minute=59, second=00, microsecond=0) in the zone at offset tz
LocalLastMinute(t, tz) == Midnight(t + tz) + (SecondsInADay - 60) - tz

\* datetime.day: the day of the month of the proleptic Gregorian date of
\* the instant t seen at offset tz (days-to-civil conversion)
DayOfMonth(t, tz) ==
    LET z   == ((t + tz) \div SecondsInADay) + 719468
        era == z \div 146097
        doe == z - era * 146097
        yoe == (doe - (doe \div 1460) + (doe \div 36524) - (doe \div 146096)) \div 365
        doy == doe - (365 * yoe + (yoe \div 4) - (yoe \div 100))
        mp  == (5 * doy + 2) \div 153
    IN  doy - ((153 * mp + 2) \div 5) + 1

\* ------------------------------------------------------------ channel names
\* int(chan.channel_num): the channel numbers that parse as integers
IntChannels == [n \in {"1", "2", "3"} |-> CASE n = "1" -> 1 [] n = "2" -> 2 [] n = "3" -> 3]
excludedDetailChannelNumbers == {"Balance", "TotalUsage"}
\* an exclusion test that excludes nothing
ExcludedNever(chanNum) == FALSE
\* line 162: chanNum in excludedDetailChannelNumbers
Excluded(chanNum) == chanNum \in excludedDetailChannelNumbers

\* '{}'.format(device_gid) when the gid is not cached, else the cached name
lookupDeviceName(account, device_gid) ==
    IF device_gid \in DOMAIN account.deviceIdMap
    THEN account.deviceIdMap[device_gid]
    ELSE device_gid

\* an override search that goes on after a match: the last entry with the
\* name and a channel list long enough
RECURSIVE OverrideNameLast(_, _, _, _, _)
OverrideNameLast(devices, i, deviceName, num, name) ==
    IF i > Len(devices) THEN name
    ELSE OverrideNameLast(devices, i + 1, deviceName, num,
             IF devices[i].name = deviceName /\ Len(devices[i].channels) >= num
             THEN <<devices[i].channels[num]>> ELSE name)

\* the override search of lines 96-101: first device entry with the name
\* and a channel list long enough
RECURSIVE OverrideName(_, _, _, _, _)
OverrideName(devices, i, deviceName, num, name) ==
    IF i > Len(devices) THEN name
    ELSE IF devices[i].name = deviceName /\ Len(devices[i].channels) >= num
         THEN <<devices[i].channels[num]>>
         ELSE OverrideName(devices, i + 1, deviceName, num, name)

\* a name '{}-{}'.format(d, n) is the pair <<d, n>>; a bare name s is <<s>>
lookupChannelName(account, chan) ==
    LET deviceName == lookupDeviceName(account, chan.device_gid)
        name == <<deviceName, chan.channel_num>>
    IN  IF chan.channel_num \in DOMAIN IntChannels
        THEN OverrideName(account.devices, 1, deviceName, IntChannels[chan.channel_num], name)
        ELSE IF chan.channel_num = "1,2,3" THEN <<deviceName>> ELSE name

createDataPoint(account, chanName, watts, timestamp, detailed) ==
    [account_name |-> account.name, device_name |-> chanName,
     detailed |-> detailed, usage |-> watts, time |-> timestamp]

\* ------------------------------------------------------------ point extractor
\* The state threaded through one extraction: pts is usageDataPoints, ok is
\* FALSE once a call has raised (nothing after it runs), queries lists the
\* get_chart_usage calls issued, in order, as <<channel, scale, start, end>>.
\* ctx holds the globals the extractor reads: account, stopTime,
\* collectDetails, detailedSecondsEnabled, detailedStartTime, and vue, the
\* answers of get_chart_usage per scale: [raise, usage].
Raised(acc) == [acc EXCEPT !.ok = FALSE]
Append2(acc, pts) == [acc EXCEPT !.pts = @ \o pts]
Queried(acc, q) == [acc EXCEPT !.queries = Append(@, q)]

\* lines 169-176: the loop over the per-second series; index advances
\* only when a point is appended
RECURSIVE SecondsLoop(_, _, _, _, _)
SecondsLoop(ctx, chanName, usage, i, index) ==
    IF i > Len(usage) THEN <<>>
    ELSE IF usage[i] = None THEN SecondsLoop(ctx, chanName, usage, i + 1, index)
    ELSE <<createDataPoint(ctx.account, chanName,
                           (secondsInAMinute * minutesInAnHour * wattsInAKw) * usage[i][1],
                           ctx.detailedStartTime + index, "True")>>
         \o SecondsLoop(ctx, chanName, usage, i + 1, index + 1)

\* lines 183-190: hourly series of a backfill window
RECURSIVE HoursLoop(_, _, _, _, _, _)
HoursLoop(ctx, chanName, usage, i, index, historyStartTime) ==
    IF i > Len(usage) THEN <<>>
    ELSE IF usage[i] = None THEN HoursLoop(ctx, chanName, usage, i + 1, index, historyStartTime)
    ELSE <<createDataPoint(ctx.account, chanName, usage[i][1] * 1000,
                           historyStartTime + index * SecondsInAnHour, "Hour")>>
         \o HoursLoop(ctx, chanName, usage, i + 1, index + 1, historyStartTime)

\* lines 193-202: daily series of a backfill window
RECURSIVE DaysLoop(_, _, _, _, _, _)
DaysLoop(ctx, chanName, usage, i, index, historyStartTime) ==
    IF i > Len(usage) THEN <<>>
    ELSE IF usage[i] = None THEN DaysLoop(ctx, chanName, usage, i + 1, index, historyStartTime)
    ELSE <<createDataPoint(ctx.account, chanName, usage[i][1] * 1000,
                           EndOfDay(historyStartTime + (index - 1) * SecondsInADay), "Day")>>
         \o DaysLoop(ctx, chanName, usage, i + 1, index + 1, historyStartTime)

\* lines 151-160: the aggregate usage point of a channel
AggregatePoint(ctx, chan, chanName, acc, pointType, historyStartTime) ==
    IF chan.usage = None THEN acc
    ELSE IF pointType = "None"
         THEN Append2(acc, <<createDataPoint(ctx.account, chanName,
                                 (minutesInAnHour * wattsInAKw) * chan.usage[1],
                                 ctx.stopTime, "False")>>)
    ELSE IF pointType \in {"Day", "Hour"}
         THEN Append2(acc, <<createDataPoint(ctx.account, chanName, chan.usage[1] * 1000,
                                 historyStartTime[1], pointType)>>)
    ELSE acc

\* lines 165-176: seconds detail of a channel
SecondsDetail(ctx, chan, chanName, acc, historyStartTime) ==
    IF ctx.collectDetails /\ ctx.detailedSecondsEnabled /\ historyStartTime = None
    THEN LET q == Queried(acc, <<chan.channel_num, "Second", ctx.detailedStartTime, ctx.stopTime>>)
         IN  IF ctx.vue.Second.raise THEN Raised(q)
             ELSE Append2(q, SecondsLoop(ctx, chanName, ctx.vue.Second.usage, 1, 0))
    ELSE acc

\* lines 179-202: hourly and daily series of a backfill window
HistoryDetail(ctx, chan, chanName, acc, historyStartTime, historyEndTime) ==
    IF historyStartTime # None /\ historyEndTime # None
    THEN LET hs == historyStartTime[1]
             he == historyEndTime[1]
             q1 == Queried(acc, <<chan.channel_num, "Hour", hs, he>>)
             a1 == Append2(q1, HoursLoop(ctx, chanName, ctx.vue.Hour.usage, 1, 0, hs))
             q2 == Queried(a1, <<chan.channel_num, "Day", hs, he>>)
         IN  IF ctx.vue.Hour.raise THEN Raised(q1)
             ELSE IF ctx.vue.Day.raise THEN Raised(q2)
             ELSE Append2(q2, DaysLoop(ctx, chanName, ctx.vue.Day.usage, 1, 0, hs))
    ELSE acc

RECURSIVE extractDataPoints(_, _, _, _, _, _)
RECURSIVE ExtractNested(_, _, _, _, _, _, _)
RECURSIVE ExtractChannels(_, _, _, _, _, _, _)

\* lines 145-147: the nested devices of a channel, depth first
ExtractNested(ctx, nested, i, acc, pointType, historyStartTime, historyEndTime) ==
    IF i > Len(nested) \/ ~acc.ok THEN acc
    ELSE ExtractNested(ctx, nested, i + 1,
             extractDataPoints(ctx, nested[i], acc, pointType, historyStartTime, historyEndTime),
             pointType, historyStartTime, historyEndTime)

\* lines 144-202: the loop over device.channels, from channel i on
ExtractChannels(ctx, channels, i, acc, pointType, historyStartTime, historyEndTime) ==
    IF i > Len(channels) \/ ~acc.ok THEN acc
    ELSE LET chan == channels[i]
             a1 == ExtractNested(ctx, chan.nested_devices, 1, acc, pointType,
                                 historyStartTime, historyEndTime)
             chanName == lookupChannelName(ctx.account, chan)
             a2 == AggregatePoint(ctx, chan, chanName, a1, pointType, historyStartTime)
             a3 == SecondsDetail(ctx, chan, chanName, a2, historyStartTime)
             a4 == IF a3.ok
                   THEN HistoryDetail(ctx, chan, chanName, a3, historyStartTime, historyEndTime)
                   ELSE a3
             done == IF ~a1.ok THEN a1
                     ELSE IF Excluded(chan.channel_num) THEN a2
                     ELSE a4
         IN  ExtractChannels(ctx, channels, i + 1, done, pointType,
                             historyStartTime, historyEndTime)

extractDataPoints(ctx, device, acc, pointType, historyStartTime, historyEndTime) ==
    ExtractChannels(ctx, device.channels, 1, acc, pointType, historyStartTime, historyEndTime)

\* `for gid, device in usages.items(): extractDataPoints(device, ...)`
RECURSIVE ExtractAll(_, _, _, _, _, _, _)
ExtractAll(ctx, devs, i, acc, pointType, historyStartTime, historyEndTime) ==
    IF i > Len(devs) \/ ~acc.ok THEN acc
    ELSE ExtractAll(ctx, devs, i + 1,
             extractDataPoints(ctx, devs[i], acc, pointType, historyStartTime, historyEndTime),
             pointType, historyStartTime, historyEndTime)

\* ------------------------------------------------------------------- inputs
\* updateIntervalSecs (default 60) and detailedIntervalSecs (default 3600)
intervalSecsDefault == 60
detailedIntervalSecsDefault == 3600
\* lagSecs default
lagSecs == 5
\* detailedDataSecondsEnabled and detailedDataHoursEnabled defaults
detailedDataSecondsEnabledDefault == TRUE
detailedDataHoursEnabledDefault == TRUE

Accounts == 1..MaxAccounts

\* config['accounts'][a] after login and populateDevices: one device "A"
\* named "Kitchen", with an override list for that device
Account(a) ==
    [name |-> a,
     deviceIdMap |-> [g \in {"A"} |-> "Kitchen"],
     devices |-> <<[name |-> "Kitchen", channels |-> <<"Fridge", "Oven">>]>>]

Channel(gid, num, usage, nested) ==
    [device_gid |-> gid, channel_num |-> num, usage |-> usage, nested_devices |-> nested]

\* answers of get_device_list_usage: it raises, returns None, or returns a
\* dict of devices (kept as the sequence of its values, in dict order)
UsageRaise == [tag |-> "raise", devs |-> <<>>]
UsageNone == [tag |-> "None", devs |-> <<>>]
UsageDict(devs) == [tag |-> "dict", devs |-> devs]
DeviceA == [device_gid |-> "A",
            channels |-> <<Channel("A", "1", Some(1), <<>>),
                           Channel("A", "Balance", Some(2), <<>>)>>]
UsageAnswers == {UsageRaise, UsageNone, UsageDict(<<DeviceA>>)}

\* answers of get_chart_usage, per scale
ChartRaise == [raise |-> TRUE, usage |-> <<>>]
ChartOk(usage) == [raise |-> FALSE, usage |-> usage]
VueOk == [Second |-> ChartOk(<<Some(1)>>), Hour |-> ChartOk(<<Some(1)>>), Day |-> ChartOk(<<Some(1)>>)]
VueAnswers == {VueOk, [VueOk EXCEPT !.Second = ChartRaise],
               [VueOk EXCEPT !.Hour = ChartRaise], [VueOk EXCEPT !.Day = ChartRaise]}

\* 2024-02-29 00:00:00 UTC, in days since the epoch
StartDay == 19782 * SecondsInADay
\* the zone five hours behind UTC, and startup instants half a minute
\* before a midnight and before a noon of that zone
TimeZones == {0 - 18000}
StartTimes == {StartDay + SecondsInADay + 18000 - 30, StartDay + 12 * SecondsInAnHour + 18000 - 30}
\* configured detailedIntervalSecs: zero, below one polling interval, and
\* just below two
DetailedIntervals == {0, 30, 115}

\* ------------------------------------------------------------------- state
VARIABLES
    \* configuration and command line, fixed at startup
    intervalSecs, detailedIntervalSecs, detailedDataEnabled,
    detailedSecondsEnabled, detailedHoursEnabled, accountTimeZone, historyDays,
    numAccounts, startupTime,
    \* globals of the script
    running, pauseEvent, history, detailedStartTime, pastDay,
    usageDataPoints, now, curDay, stopTime, collectDetails,
    account, loggedIn, usages, historyStartTime, historyEndTime,
    \* the position of the script and the wall clock
    pc, clock, faults,
    \* observations of the current tick and of the run
    tickNo, attempted, failed, writes, doneKinds, failedKinds, retry,
    dayDue, dayCollected, histTicks, histEntries, histCompleted, histAborted, windows,
    \* the state at the delivery of the signal; the detail ticks and their
    \* per-second and hourly queries; the collections started for the
    \* account in progress; the backfill iterations
    signalled, detailTicks, secQueries, order, histDone, histExtracted, hoursQueried,
    \* input and output of a single extraction (pure-function checks)
    xin, xout

cfgVars == <<intervalSecs, detailedIntervalSecs, detailedDataEnabled,
             detailedSecondsEnabled, detailedHoursEnabled, accountTimeZone, historyDays,
             numAccounts, startupTime>>
tickVars == <<now, curDay, stopTime, collectDetails>>
obsVars == <<tickNo, attempted, failed, writes, doneKinds, failedKinds, retry,
             dayDue, dayCollected, histTicks, histEntries, histCompleted, histAborted,
             windows>>
runVars == <<signalled, detailTicks, secQueries, order, histDone, histExtracted,
             hoursQueried>>
xVars == <<xin, xout>>
vars == <<cfgVars, running, pauseEvent, history, detailedStartTime, pastDay,
          usageDataPoints, tickVars, account, loggedIn, usages,
          historyStartTime, historyEndTime, pc, clock, faults, obsVars, runVars, xVars>>

NoKinds == [a \in Accounts |-> {}]

\* lines 204, 298-317: the state when the loop is first reached
InitConfig ==
    /\ numAccounts \in Accounts
    /\ intervalSecs = intervalSecsDefault
    /\ detailedDataEnabled \in BOOLEAN
    /\ detailedIntervalSecs \in (IF detailedDataEnabled THEN DetailedIntervals
                                  ELSE {detailedIntervalSecsDefault})
    /\ detailedSecondsEnabled = (detailedDataEnabled /\ detailedDataSecondsEnabledDefault)
    /\ detailedHoursEnabled = (detailedDataEnabled /\ detailedDataHoursEnabledDefault)
    /\ accountTimeZone \in TimeZones
    /\ \E historydays \in {0, 45} : historyDays = Min(historydays, MaxHistoryDays)

InitLoop(starts) ==
    /\ history = (historyDays > 0)
    /\ running = TRUE
    /\ pauseEvent = FALSE
    /\ clock \in starts
    /\ startupTime = clock
    /\ detailedStartTime = startupTime
    /\ pastDay = LocalEndOfDay(clock, accountTimeZone)
    /\ usageDataPoints = <<>>
    /\ now = clock /\ curDay = clock /\ stopTime = clock /\ collectDetails = FALSE
    /\ account = 0
    /\ loggedIn = {}
    /\ usages = UsageNone
    /\ historyStartTime = 0 /\ historyEndTime = 0
    /\ pc = "tick"
    /\ tickNo = 0 /\ attempted = {} /\ failed = {} /\ writes = <<>>
    /\ doneKinds = {} /\ failedKinds = NoKinds /\ retry = NoKinds
    /\ dayDue = FALSE /\ dayCollected = {}
    /\ histTicks = {} /\ histEntries = 0 /\ histCompleted = 0 /\ histAborted = 0 /\ windows = <<>>
    /\ signalled = None /\ detailTicks = <<>> /\ secQueries = {} /\ order = <<>>
    /\ histDone = {} /\ histExtracted = {} /\ hoursQueried = <<>>

NoExtraction == [pts |-> <<>>, ok |-> TRUE, queries |-> <<>>]
\* no single extraction is under observation
NoCall == [called |-> FALSE]

Init ==
    /\ InitConfig
    /\ InitLoop(StartTimes)
    /\ faults = 0
    /\ xin = NoCall /\ xout = NoExtraction

\* ------------------------------------------------------------------ actions
\* globals in which the per-second window always starts at startup
CtxFromStartup(vue) ==
    [account |-> Account(account), stopTime |-> stopTime,
     collectDetails |-> collectDetails,
     detailedSecondsEnabled |-> detailedSecondsEnabled,
     detailedStartTime |-> startupTime, vue |-> vue]

\* the globals extractDataPoints reads, with the answers the API will give
Ctx(vue) ==
    [account |-> Account(account), stopTime |-> stopTime,
     collectDetails |-> collectDetails,
     detailedSecondsEnabled |-> detailedSecondsEnabled,
     detailedStartTime |-> detailedStartTime, vue |-> vue]

Acc == [pts |-> usageDataPoints, ok |-> TRUE, queries |-> <<>>]

\* the collaborators answer abnormally (b) at most MaxFaults times
Fault(b) ==
    /\ b => faults < MaxFaults
    /\ faults' = IF b THEN faults + 1 ELSE faults

\* an exception is raised inside the try block while the collections
\* `kinds` are in progress: control moves to the except clause
Raise(kinds) ==
    /\ pc' = "except"
    /\ failed' = failed \cup {account}
    /\ failedKinds' = [failedKinds EXCEPT ![account] = kinds]

NoRaise == UNCHANGED <<failed, failedKinds>>

SecondsDue == collectDetails /\ detailedSecondsEnabled
HourDue == collectDetails /\ detailedHoursEnabled
DayDue == DayOfMonth(pastDay, accountTimeZone) # DayOfMonth(curDay, accountTimeZone)

\* line 319 when running is false, line 397
LoopExit ==
    /\ pc = "tick" /\ ~running
    /\ pc' = "finished"
    /\ UNCHANGED <<cfgVars, running, pauseEvent, history, detailedStartTime, pastDay,
                   usageDataPoints, tickVars, account, loggedIn, usages,
                   historyStartTime, historyEndTime, clock, faults, obsVars, xVars,
                   signalled, detailTicks, secQueries, order, histDone, histExtracted, hoursQueried>>

\* lines 319-326: the loop test and the start of a tick, for the first
\* `limit` ticks of a run
Tick(limit) ==
    /\ pc = "tick" /\ running /\ tickNo < limit
    /\ usageDataPoints' = <<>>
    /\ now' = clock
    /\ curDay' = clock
    /\ stopTime' = clock - lagSecs
    /\ collectDetails' = (detailedDataEnabled /\ detailedIntervalSecs > 0
                          /\ (stopTime' - detailedStartTime) >= detailedIntervalSecs)
    /\ account' = 1
    /\ pc' = "account"
    /\ tickNo' = tickNo + 1
    /\ attempted' = {} /\ failed' = {} /\ writes' = <<>> /\ doneKinds' = {}
    /\ retry' = failedKinds /\ failedKinds' = NoKinds
    /\ dayDue' = (DayOfMonth(pastDay, accountTimeZone) # DayOfMonth(clock, accountTimeZone))
    /\ dayCollected' = {}
    /\ windows' = <<>>
    /\ detailTicks' = IF collectDetails'
                      THEN Append(detailTicks, <<detailedStartTime, stopTime'>>)
                      ELSE detailTicks
    /\ UNCHANGED <<cfgVars, running, pauseEvent, history, detailedStartTime, pastDay,
                   loggedIn, usages, historyStartTime, historyEndTime, clock, faults,
                   histTicks, histEntries, histCompleted, histAborted, xVars,
                   signalled, secQueries, order, histDone, histExtracted, hoursQueried>>

TickStart == Tick(MaxTicks)

\* line 328 when the accounts are exhausted
ForDone ==
    /\ pc = "account" /\ account > numAccounts
    /\ pc' = "tickEnd"
    /\ UNCHANGED <<cfgVars, running, pauseEvent, history, detailedStartTime, pastDay,
                   usageDataPoints, tickVars, account, loggedIn, usages,
                   historyStartTime, historyEndTime, clock, faults, obsVars, xVars,
                   signalled, detailTicks, secQueries, order, histDone, histExtracted, hoursQueried>>

\* a visit of the next account that passes over the live query
ForAccountSkipsLive ==
    /\ pc = "account" /\ account <= numAccounts
    /\ Fault(FALSE)
    /\ loggedIn' = loggedIn \cup {account}
    /\ pc' = "hour"
    /\ attempted' = attempted \cup {account}
    /\ doneKinds' = {}
    /\ order' = <<>>
    /\ UNCHANGED <<cfgVars, running, pauseEvent, history, detailedStartTime, pastDay,
                   usageDataPoints, tickVars, account, usages,
                   historyStartTime, historyEndTime, clock,
                   tickNo, failed, writes, failedKinds, retry,
                   dayDue, dayCollected, histTicks, histEntries, histCompleted, histAborted,
                   windows, xVars,
                   signalled, detailTicks, secQueries, histDone, histExtracted, hoursQueried>>

\* lines 328-333: the next account; its first visit logs in, outside the
\* try block, so a failing login ends the script
ForAccount ==
    /\ pc = "account" /\ account <= numAccounts
    /\ \/ /\ account \notin loggedIn
          /\ Fault(TRUE)
          /\ pc' = "fatal"
          /\ UNCHANGED <<loggedIn, attempted, doneKinds, order>>
       \/ /\ Fault(FALSE)
          /\ loggedIn' = loggedIn \cup {account}
          /\ pc' = "live"
          /\ attempted' = attempted \cup {account}
          /\ doneKinds' = {}
          /\ order' = <<>>
    /\ UNCHANGED <<cfgVars, running, pauseEvent, history, detailedStartTime, pastDay,
                   usageDataPoints, tickVars, account, usages,
                   historyStartTime, historyEndTime, clock,
                   tickNo, failed, writes, failedKinds, retry,
                   dayDue, dayCollected, histTicks, histEntries, histCompleted, histAborted, windows, xVars,
                   signalled, detailTicks, secQueries, histDone, histExtracted, hoursQueried>>

\* lines 336-340: the live per-minute query and its extraction (with the
\* seconds detail of lines 165-176 when it is due)
LiveCollect ==
    /\ pc = "live"
    /\ \E ans \in UsageAnswers, vue \in VueAnswers :
         LET r == ExtractAll(Ctx(vue), ans.devs, 1, Acc, "None", None, None)
             due == IF SecondsDue THEN {"Seconds"} ELSE {}
         IN  /\ Fault(ans.tag # "dict" \/ ~r.ok)
             /\ order' = Append(order, "Live")
             /\ IF ans.tag = "raise"
                THEN /\ Raise(due)
                     /\ UNCHANGED <<usages, usageDataPoints, doneKinds, secQueries>>
                ELSE /\ usages' = ans
                     /\ usageDataPoints' = r.pts
                     /\ secQueries' = secQueries \cup
                           {<<tickNo, account, r.queries[i][3], r.queries[i][4]>> :
                               i \in {j \in DOMAIN r.queries : r.queries[j][2] = "Second"}}
                     /\ IF r.ok
                        THEN /\ pc' = "hour"
                             /\ doneKinds' = doneKinds \cup due
                             /\ NoRaise
                        ELSE /\ Raise(due)
                             /\ UNCHANGED doneKinds
    /\ UNCHANGED <<cfgVars, running, pauseEvent, history, detailedStartTime, pastDay,
                   tickVars, account, loggedIn, historyStartTime, historyEndTime, clock,
                   tickNo, attempted, writes, retry,
                   dayDue, dayCollected, histTicks, histEntries, histCompleted, histAborted, windows, xVars,
                   signalled, detailTicks, histDone, histExtracted, hoursQueried>>

\* lines 342-350: the previous full hour, when detail collection is due
HourCollect ==
    /\ pc = "hour"
    /\ IF HourDue
       THEN \E ans \in UsageAnswers :
              LET pastHour == TopOfHour(stopTime - SecondsInAnHour)
                  r == ExtractAll(Ctx(VueOk), ans.devs, 1, Acc, "Hour", Some(pastHour), None)
              IN  /\ Fault(ans.tag # "dict")
                  /\ historyStartTime' = pastHour
                  /\ order' = Append(order, "Hour")
                  /\ hoursQueried' = Append(hoursQueried, pastHour)
                  /\ IF ans.tag = "raise"
                     THEN /\ Raise({"Hour"})
                          /\ UNCHANGED <<usages, usageDataPoints, doneKinds>>
                     ELSE /\ usages' = ans
                          /\ usageDataPoints' = r.pts
                          /\ pc' = "day"
                          /\ doneKinds' = doneKinds \cup {"Hour"}
                          /\ NoRaise
       ELSE /\ pc' = "day"
            /\ NoRaise
            /\ UNCHANGED <<faults, historyStartTime, usages, usageDataPoints, doneKinds,
                           order, hoursQueried>>
    /\ UNCHANGED <<cfgVars, running, pauseEvent, history, detailedStartTime, pastDay,
                   tickVars, account, loggedIn, historyEndTime, clock,
                   tickNo, attempted, writes, retry,
                   dayDue, dayCollected, histTicks, histEntries, histCompleted, histAborted, windows, xVars,
                   signalled, detailTicks, secQueries, histDone, histExtracted>>

\* a daily step that is passed over
DayCollectSkipped ==
    /\ pc = "day"
    /\ pc' = "history"
    /\ UNCHANGED <<cfgVars, running, pauseEvent, history, detailedStartTime, pastDay,
                   usageDataPoints, tickVars, account, loggedIn, usages,
                   historyStartTime, historyEndTime, clock, faults, obsVars, runVars, xVars>>

\* lines 352-360: the daily rollup, when the day of the marker differs
\* from the day of the tick
DayCollect ==
    /\ pc = "day"
    /\ IF DayDue
       THEN \E ans \in UsageAnswers :
              LET r == ExtractAll(Ctx(VueOk), ans.devs, 1, Acc, "Day", Some(pastDay), None)
              IN  /\ Fault(ans.tag # "dict")
                  /\ order' = Append(order, "Day")
                  /\ IF ans.tag = "raise"
                     THEN /\ Raise({"Day"})
                          /\ UNCHANGED <<usages, usageDataPoints, doneKinds, historyStartTime,
                                         pastDay, dayCollected>>
                     ELSE /\ usages' = ans
                          /\ historyStartTime' = pastDay
                          /\ usageDataPoints' = r.pts
                          /\ pastDay' = LocalLastMinute(clock, accountTimeZone)
                          /\ dayCollected' = dayCollected \cup {account}
                          /\ pc' = "history"
                          /\ doneKinds' = doneKinds \cup {"Day"}
                          /\ NoRaise
       ELSE /\ pc' = "history"
            /\ NoRaise
            /\ UNCHANGED <<faults, historyStartTime, usages, usageDataPoints, doneKinds,
                           pastDay, dayCollected, order>>
    /\ UNCHANGED <<cfgVars, running, pauseEvent, history, detailedStartTime,
                   tickVars, account, loggedIn, historyEndTime, clock,
                   tickNo, attempted, writes, retry,
                   dayDue, histTicks, histEntries, histCompleted, histAborted, windows, xVars,
                   signalled, detailTicks, secQueries, histDone, histExtracted, hoursQueried>>

\* a window end 21 days after the start
WindowEndLate(start, stop) ==
    EndOfDay(Min(start + (HistoryWindowDays + 1) * SecondsInADay, stop))
\* a window end that is not held back by the stop time
WindowEndUnclipped(start, stop) == EndOfDay(start + HistoryWindowDays * SecondsInADay)
\* a next start on the day the window ended
NextWindowStartSameDay(end) == Midnight(end)
\* a next start that leaves a day out
NextWindowStartSkipsDay(end) == Midnight(end + 2 * SecondsInADay)

\* lines 364-365: the start of the first backfill window
FirstWindowStart(stop, days) == Midnight(stop - days * SecondsInADay)
\* lines 367-368: the end of the window starting at start
WindowEnd(start, stop) == EndOfDay(Min(start + HistoryWindowDays * SecondsInADay, stop))
\* lines 374-375: the start of the window after the one ending at end
NextWindowStart(end) == Midnight(end + SecondsInADay)

\* a line 377 that leaves the flag set
ClearHistoryKeepsFlag ==
    /\ history' = history
    /\ histCompleted' = histCompleted + 1
    /\ histDone' = histDone \cup {<<tickNo, account>>}
    /\ doneKinds' = doneKinds \cup {"History"}

\* line 377
ClearHistory ==
    /\ history' = FALSE
    /\ histCompleted' = histCompleted + 1
    /\ histDone' = histDone \cup {<<tickNo, account>>}
    /\ doneKinds' = doneKinds \cup {"History"}

\* a test that never abandons the iteration
BackfillBreakNever == FALSE
\* lines 372-373: the iteration is abandoned after a window's extraction
\* when the signal has been delivered
BackfillBreak == ~running

\* a backfill that every account starts, whatever the flag
HistoryBeginAlways ==
    /\ pc = "history"
    /\ IF historyDays > 0
       THEN /\ historyStartTime' = FirstWindowStart(stopTime, historyDays)
            /\ windows' = <<>>
            /\ histTicks' = histTicks \cup {tickNo}
            /\ histEntries' = histEntries + 1
            /\ order' = Append(order, "History")
            /\ pc' = "window"
       ELSE /\ pc' = "write"
            /\ UNCHANGED <<historyStartTime, windows, histTicks, histEntries, order>>
    /\ UNCHANGED <<cfgVars, running, pauseEvent, history, detailedStartTime, pastDay,
                   usageDataPoints, tickVars, account, loggedIn, usages,
                   historyEndTime, clock, faults,
                   tickNo, attempted, failed, writes, doneKinds, failedKinds, retry,
                   dayDue, dayCollected, histCompleted, histAborted, xVars,
                   signalled, detailTicks, secQueries, histDone, histExtracted, hoursQueried>>

\* lines 362-365: a requested backfill starts its window iteration
HistoryBegin ==
    /\ pc = "history"
    /\ IF history
       THEN /\ historyStartTime' = FirstWindowStart(stopTime, historyDays)
            /\ windows' = <<>>
            /\ histTicks' = histTicks \cup {tickNo}
            /\ histEntries' = histEntries + 1
            /\ order' = Append(order, "History")
            /\ pc' = "window"
       ELSE /\ pc' = "write"
            /\ UNCHANGED <<historyStartTime, windows, histTicks, histEntries, order>>
    /\ UNCHANGED <<cfgVars, running, pauseEvent, history, detailedStartTime, pastDay,
                   usageDataPoints, tickVars, account, loggedIn, usages,
                   historyEndTime, clock, faults,
                   tickNo, attempted, failed, writes, doneKinds, failedKinds, retry,
                   dayDue, dayCollected, histCompleted, histAborted, xVars,
                   signalled, detailTicks, secQueries, histDone, histExtracted, hoursQueried>>

\* lines 366-375 and 377: the loop test and one backfill window, up to the
\* pause; `usages` is whatever the last get_device_list_usage returned, and
\* usages.items() raises when that is None
HistoryWindow ==
    /\ pc = "window"
    /\ IF historyStartTime <= stopTime
       THEN \E vue \in VueAnswers :
              LET end == WindowEnd(historyStartTime, stopTime)
                  r == ExtractAll(Ctx(vue), usages.devs, 1, Acc, "History",
                                  Some(historyStartTime), Some(end))
              IN  /\ historyEndTime' = end
                  /\ IF usages.tag = "None"
                     THEN /\ Fault(FALSE)
                          /\ Raise({"History"})
                          /\ histAborted' = histAborted + 1
                          /\ UNCHANGED <<usageDataPoints, windows, historyStartTime,
                                         history, histCompleted, doneKinds,
                                         histDone, histExtracted>>
                     ELSE /\ Fault(~r.ok)
                          /\ usageDataPoints' = r.pts
                          /\ windows' = Append(windows, <<historyStartTime, end>>)
                          /\ histExtracted' = histExtracted \cup {<<tickNo, account>>}
                          /\ IF ~r.ok
                             THEN /\ Raise({"History"})
                                  /\ histAborted' = histAborted + 1
                                  /\ UNCHANGED <<historyStartTime, history, histCompleted,
                                                 doneKinds, histDone>>
                             ELSE IF BackfillBreak
                             THEN /\ ClearHistory
                                  /\ pc' = "write"
                                  /\ NoRaise
                                  /\ UNCHANGED <<historyStartTime, histAborted>>
                             ELSE /\ historyStartTime' = NextWindowStart(end)
                                  /\ pc' = "pause"
                                  /\ NoRaise
                                  /\ UNCHANGED <<history, histCompleted, histAborted,
                                                 doneKinds, histDone>>
       ELSE /\ ClearHistory
            /\ pc' = "write"
            /\ NoRaise
            /\ UNCHANGED <<faults, historyStartTime, historyEndTime, usageDataPoints,
                           windows, histAborted, histExtracted>>
    /\ UNCHANGED <<cfgVars, running, pauseEvent, detailedStartTime, pastDay,
                   tickVars, account, loggedIn, usages, clock,
                   tickNo, attempted, writes, retry,
                   dayDue, dayCollected, histTicks, histEntries, xVars,
                   signalled, detailTicks, secQueries, order, hoursQueried>>

\* line 376: pauseEvent.wait(5) returns at once when the event is set
HistoryPause ==
    /\ pc = "pause"
    /\ clock' = IF pauseEvent THEN clock ELSE clock + HistoryPauseSecs
    /\ pc' = "window"
    /\ UNCHANGED <<cfgVars, running, pauseEvent, history, detailedStartTime, pastDay,
                   usageDataPoints, tickVars, account, loggedIn, usages,
                   historyStartTime, historyEndTime, faults, obsVars, xVars,
                   signalled, detailTicks, secQueries, order, histDone, histExtracted, hoursQueried>>

\* lines 379-387: leave the account loop on shutdown, else submit the
\* accumulated points in one write call, which may raise
Write ==
    /\ pc = "write"
    /\ IF ~running
       THEN /\ pc' = "tickEnd"
            /\ NoRaise
            /\ UNCHANGED <<writes, account, faults>>
       ELSE \/ /\ Fault(FALSE)
               /\ writes' = Append(writes, [account |-> account, points |-> usageDataPoints])
               /\ account' = account + 1
               /\ pc' = "account"
               /\ NoRaise
            \/ /\ Fault(TRUE)
               /\ Raise(doneKinds)
               /\ UNCHANGED <<writes, account>>
    /\ UNCHANGED <<cfgVars, running, pauseEvent, history, detailedStartTime, pastDay,
                   usageDataPoints, tickVars, loggedIn, usages,
                   historyStartTime, historyEndTime, clock,
                   tickNo, attempted, doneKinds, retry,
                   dayDue, dayCollected, histTicks, histEntries, histCompleted, histAborted, windows, xVars,
                   signalled, detailTicks, secQueries, order, histDone, histExtracted, hoursQueried>>

\* a handler that leaves the account loop instead of going on
ExceptBreak ==
    /\ pc = "except"
    /\ pc' = "tickEnd"
    /\ UNCHANGED <<cfgVars, running, pauseEvent, history, detailedStartTime, pastDay,
                   usageDataPoints, tickVars, account, loggedIn, usages,
                   historyStartTime, historyEndTime, clock, faults, obsVars, xVars,
                   signalled, detailTicks, secQueries, order, histDone, histExtracted, hoursQueried>>

\* lines 389-391: the error is logged and the account loop goes on
Except ==
    /\ pc = "except"
    /\ account' = account + 1
    /\ pc' = "account"
    /\ UNCHANGED <<cfgVars, running, pauseEvent, history, detailedStartTime, pastDay,
                   usageDataPoints, tickVars, loggedIn, usages,
                   historyStartTime, historyEndTime, clock, faults, obsVars, xVars,
                   signalled, detailTicks, secQueries, order, histDone, histExtracted, hoursQueried>>

\* a checkpoint that is moved at the end of every tick
TickEndAlways ==
    /\ pc = "tickEnd"
    /\ detailedStartTime' = stopTime + 1
    /\ clock' = IF pauseEvent THEN clock ELSE clock + intervalSecs
    /\ pc' = "tick"
    /\ UNCHANGED <<cfgVars, running, pauseEvent, history, pastDay,
                   usageDataPoints, tickVars, account, loggedIn, usages,
                   historyStartTime, historyEndTime, faults, obsVars, runVars, xVars>>

\* lines 393-395: the detail checkpoint and the wait for the next tick,
\* which returns at once when the event is set
TickEnd ==
    /\ pc = "tickEnd"
    /\ detailedStartTime' = IF collectDetails THEN stopTime + 1 ELSE detailedStartTime
    /\ clock' = IF pauseEvent THEN clock ELSE clock + intervalSecs
    /\ pc' = "tick"
    /\ UNCHANGED <<cfgVars, running, pauseEvent, history, pastDay,
                   usageDataPoints, tickVars, account, loggedIn, usages,
                   historyStartTime, historyEndTime, faults, obsVars, xVars,
                   signalled, detailTicks, secQueries, order, histDone, histExtracted, hoursQueried>>

\* where the script is when the signal is delivered: at a position of its
\* own when a wait or a test of the flag is next, "collect" inside the
\* collections of an account
SignalPoint ==
    IF pc \in {"live", "hour", "day", "history", "write", "except"} THEN "collect" ELSE pc

\* a handler that clears the flag and leaves the event unset
handleExitNoWake ==
    /\ pc \notin {"finished", "fatal"}
    /\ running
    /\ running' = FALSE
    /\ signalled' = Some([pc |-> SignalPoint, clock |-> clock, tickNo |-> tickNo, account |-> account,
                          writes |-> Len(writes), windows |-> Len(windows),
                          histEntries |-> histEntries])
    /\ UNCHANGED <<cfgVars, pauseEvent, history, detailedStartTime, pastDay,
                   usageDataPoints, tickVars, account, loggedIn, usages,
                   historyStartTime, historyEndTime, pc, clock, faults, obsVars, xVars,
                   detailTicks, secQueries, order, histDone, histExtracted, hoursQueried>>

\* lines 51-55: SIGINT or SIGHUP is delivered
handleExit ==
    /\ pc \notin {"finished", "fatal"}
    /\ running
    /\ running' = FALSE
    /\ pauseEvent' = TRUE
    /\ signalled' = Some([pc |-> SignalPoint, clock |-> clock, tickNo |-> tickNo, account |-> account,
                          writes |-> Len(writes), windows |-> Len(windows),
                          histEntries |-> histEntries])
    /\ UNCHANGED <<cfgVars, history, detailedStartTime, pastDay,
                   usageDataPoints, tickVars, account, loggedIn, usages,
                   historyStartTime, historyEndTime, pc, clock, faults, obsVars, xVars,
                   detailTicks, secQueries, order, histDone, histExtracted, hoursQueried>>

\* the steps of the script from the start of a tick on
TickSteps ==
    \/ LoopExit \/ ForDone \/ ForAccount
    \/ LiveCollect \/ HourCollect \/ DayCollect
    \/ HistoryBegin \/ HistoryWindow \/ HistoryPause
    \/ Write \/ Except \/ TickEnd

\* the steps of the script itself
Step == TickStart \/ TickSteps

Next == Step \/ handleExit

Spec == Init /\ [][Next]_vars

\* ------------------------------------------------- the script kept running
\* A run with several accounts, detail collection and a backfill, started half a minute
\* before a local midnight, in which the interpreter keeps running the
\* script (a step that can be taken is taken) and the signal may or may
\* not come.
InitLive ==
    /\ Init
    /\ numAccounts = MaxAccounts
    /\ detailedDataEnabled /\ detailedIntervalSecs = 30
    /\ historyDays > 0
    /\ DayOfMonth(clock + 30, accountTimeZone) # DayOfMonth(clock, accountTimeZone)

TickStartLive == Tick(LiveTicks)
StepLive == TickStartLive \/ TickSteps
NextLive == StepLive \/ handleExit

SpecLive == InitLive /\ [][NextLive]_vars /\ WF_vars(StepLive)

\* ------------------------------------------------- the backfill on its own
\* One account, no detail collection, collaborators that answer normally
\* and no shutdown signal: the first tick of a run started with --historydays 1, 2, ..., at
\* instants whose stop time falls on a midnight, a noon and a last second
\* of a day.
HistStopTimes == {StartDay, StartDay + 12 * SecondsInAnHour, StartDay + SecondsInADay - 1}
InitHist ==
    /\ numAccounts = 1
    /\ intervalSecs = intervalSecsDefault
    /\ detailedIntervalSecs = detailedIntervalSecsDefault
    /\ detailedDataEnabled = FALSE
    /\ detailedSecondsEnabled = FALSE
    /\ detailedHoursEnabled = FALSE
    /\ accountTimeZone \in TimeZones
    /\ \E historydays \in 1..(MaxHistoryDays + 1) : historyDays = Min(historydays, MaxHistoryDays)
    /\ InitLoop({t + lagSecs : t \in HistStopTimes})
    /\ faults = MaxFaults
    /\ xin = NoCall /\ xout = NoExtraction

NextHist ==
    \/ (tickNo = 0 /\ TickStart) \/ ForDone \/ ForAccount
    \/ LiveCollect \/ HourCollect \/ DayCollect
    \/ HistoryBegin \/ HistoryWindow \/ HistoryPause
    \/ Write \/ TickEnd

SpecHist == InitHist /\ [][NextHist]_vars

\* the same runs with the interpreter kept running
SpecHistLive == SpecHist /\ WF_vars(NextHist)


\* ------------------------------------------------ one extraction on its own
\* extractDataPoints applied once to a device tree: channels with and
\* without usage, with excluded and composite numbers, with a nested
\* device; every kind of call the loop makes; every series of length up
\* to MaxSeries that get_chart_usage can return, or its failure.
Usages == {None, Some(1), Some(2)}
LeafChans == {Channel("A", n, u, <<>>) :
                 n \in {"1", "Balance", "TotalUsage", "1,2,3"}, u \in {None, Some(2)}}
NestedDevices == {[device_gid |-> "B", channels |-> <<Channel("B", n, Some(1), <<>>)>>] :
                     n \in {"2", "Balance"}}
ParentChans == {Channel("A", n, Some(2), <<d>>) : n \in {"1", "Balance"}, d \in NestedDevices}
Devices ==
    {[device_gid |-> "A", channels |-> <<c>>] : c \in LeafChans \cup ParentChans}
    \cup {[device_gid |-> "A", channels |-> <<c1, c2>>] :
             c1 \in LeafChans, c2 \in {Channel("A", "Balance", Some(1), <<>>),
                                       Channel("A", "3", Some(1), <<>>)}}

RECURSIVE SeriesOfLen(_)
SeriesOfLen(n) ==
    IF n = 0 THEN {<<>>}
    ELSE {Append(q, u) : q \in SeriesOfLen(n - 1), u \in Usages}
Series == UNION {SeriesOfLen(n) : n \in 0..MaxSeries}

\* the calls of lines 340, 350, 358 and 371
Calls(start) ==
    {[pointType |-> "None", historyStartTime |-> None, historyEndTime |-> None],
     [pointType |-> "Hour", historyStartTime |-> Some(TopOfHour(start)), historyEndTime |-> None],
     [pointType |-> "Day", historyStartTime |-> Some(EndOfDay(start)), historyEndTime |-> None],
     [pointType |-> "History", historyStartTime |-> Some(Midnight(start)),
      historyEndTime |-> Some(EndOfDay(start))]}

InitExtract ==
    /\ numAccounts = 1
    /\ intervalSecs = intervalSecsDefault
    /\ detailedIntervalSecs = detailedIntervalSecsDefault
    /\ detailedDataEnabled = TRUE
    /\ detailedSecondsEnabled \in BOOLEAN
    /\ detailedHoursEnabled = TRUE
    /\ accountTimeZone \in TimeZones
    /\ historyDays = 0
    /\ InitLoop({StartDay + 12 * SecondsInAnHour})
    /\ faults = 0
    /\ \E device \in Devices, call \in Calls(clock), due \in BOOLEAN,
          usage \in Series, raises \in BOOLEAN :
         xin = [device |-> device, call |-> call, collectDetails |-> due,
                usage |-> usage, raises |-> raises, called |-> FALSE]
    /\ xout = NoExtraction

\* the globals of the call: the tick stops an hour after the detail
\* checkpoint; get_chart_usage answers xin.usage at every scale, or raises
\* at the SECOND scale
XCtx ==
    [account |-> Account(1), stopTime |-> detailedStartTime + SecondsInAnHour,
     collectDetails |-> xin.collectDetails,
     detailedSecondsEnabled |-> detailedSecondsEnabled,
     detailedStartTime |-> detailedStartTime,
     vue |-> [Second |-> IF xin.raises THEN ChartRaise ELSE ChartOk(xin.usage),
              Hour |-> ChartOk(xin.usage), Day |-> ChartOk(xin.usage)]]

Extract ==
    /\ xin # NoCall /\ ~xin.called
    /\ xout' = extractDataPoints(XCtx, xin.device, NoExtraction, xin.call.pointType,
                                 xin.call.historyStartTime, xin.call.historyEndTime)
    /\ xin' = [xin EXCEPT !.called = TRUE]
    /\ UNCHANGED <<cfgVars, running, pauseEvent, history, detailedStartTime, pastDay,
                   usageDataPoints, tickVars, account, loggedIn, usages,
                   historyStartTime, historyEndTime, pc, clock, faults, obsVars,
                   signalled, detailTicks, secQueries, order, histDone, histExtracted, hoursQueried>>

SpecExtract == InitExtract /\ [][Extract]_vars

\* ------------------------------------------------ hourly detail on its own
\* One account, the default intervals (a tick a minute, detail every 3600
\* seconds), detail enabled, no backfill, collaborators that answer
\* normally and no signal: two hours of polling, started 85 seconds
\* before, and ten minutes after, the top of an hour.
HourlyStarts == {StartDay + 12 * SecondsInAnHour - 85, StartDay + 12 * SecondsInAnHour + 600}
InitHourly ==
    /\ numAccounts = 1
    /\ intervalSecs = intervalSecsDefault
    /\ detailedIntervalSecs = detailedIntervalSecsDefault
    /\ detailedDataEnabled = TRUE
    /\ detailedSecondsEnabled = detailedDataSecondsEnabledDefault
    /\ detailedHoursEnabled = detailedDataHoursEnabledDefault
    /\ accountTimeZone \in TimeZones
    /\ historyDays = 0
    /\ InitLoop(HourlyStarts)
    /\ faults = MaxFaults
    /\ xin = NoCall /\ xout = NoExtraction

TickStartHourly == Tick(MaxHourlyTicks)
NextHourly ==
    \/ TickStartHourly \/ ForDone \/ ForAccount
    \/ LiveCollect \/ HourCollect \/ DayCollect
    \/ HistoryBegin \/ Write \/ TickEnd

SpecHourly == InitHourly /\ [][NextHourly]_vars

\* --------------------------------------------- name resolution on its own
\* lookupChannelName called twice for one channel, with the device cache
\* empty, partly or fully filled, every channel number the API reports,
\* and override lists that are absent, too short, long enough, for
\* another device, or given twice for the device.
NameCaches ==
    {<<>>, [g \in {"A"} |-> "Kitchen"],
     [g \in {"A", "B"} |-> IF g = "A" THEN "Kitchen" ELSE "Garage"]}
Overrides ==
    {<<>>,
     <<[name |-> "Kitchen", channels |-> <<>>]>>,
     <<[name |-> "Kitchen", channels |-> <<"Fridge">>]>>,
     <<[name |-> "Kitchen", channels |-> <<"Fridge", "Oven">>]>>,
     <<[name |-> "Kitchen", channels |-> <<"Fridge", "Oven", "Sink">>]>>,
     <<[name |-> "Garage", channels |-> <<"Car", "Door", "Lamp">>]>>,
     <<[name |-> "Garage", channels |-> <<"Car", "Door", "Lamp">>],
       [name |-> "Kitchen", channels |-> <<"Fridge">>]>>,
     <<[name |-> "Kitchen", channels |-> <<"Fridge">>],
       [name |-> "Kitchen", channels |-> <<"Hob", "Fan", "Light">>]>>,
     <<[name |-> "B", channels |-> <<"Shed">>]>>}
ChannelNums == {"1", "2", "3", "Balance", "TotalUsage", "1,2,3"}
\* answers of get_devices / populate_device_properties inside
\* populateDevices: it raises, or lists the devices of the account
PopulateAnswers ==
    {[raise |-> TRUE, map |-> <<>>]} \cup {[raise |-> FALSE, map |-> c] : c \in NameCaches}

\* lines 62-76: the caches are rebuilt from the devices the API lists
populateDevices(acct, answer) == [acct EXCEPT !.deviceIdMap = answer.map]

\* lines 88-91: the cache is refilled when the device is unknown, by
\* lookupChannelName and again by lookupDeviceName; the result is the
\* account as the calls leave it, or a raised exception
Populated(acct, gid, a1, a2) ==
    IF gid \in DOMAIN acct.deviceIdMap THEN [raise |-> FALSE, account |-> acct]
    ELSE IF a1.raise THEN [raise |-> TRUE, account |-> acct]
    ELSE LET acct1 == populateDevices(acct, a1)
         IN  IF gid \in DOMAIN acct1.deviceIdMap THEN [raise |-> FALSE, account |-> acct1]
             ELSE IF a2.raise THEN [raise |-> TRUE, account |-> acct1]
             ELSE [raise |-> FALSE, account |-> populateDevices(acct1, a2)]

InitNames ==
    /\ numAccounts = 1
    /\ intervalSecs = intervalSecsDefault
    /\ detailedIntervalSecs = detailedIntervalSecsDefault
    /\ detailedDataEnabled = FALSE
    /\ detailedSecondsEnabled = FALSE
    /\ detailedHoursEnabled = FALSE
    /\ accountTimeZone \in TimeZones
    /\ historyDays = 0
    /\ InitLoop({StartDay + 12 * SecondsInAnHour})
    /\ faults = 0
    /\ \E cache \in NameCaches, devices \in Overrides, gid \in {"A", "B"}, num \in ChannelNums :
         xin = [account |-> [name |-> 1, deviceIdMap |-> cache, devices |-> devices],
                chan |-> Channel(gid, num, None, <<>>), called |-> FALSE]
    /\ xout = <<>>

\* one call of lookupChannelName(account, chan); xout lists, per call, the
\* cache before it, the cache after it and the name returned
LookupName ==
    /\ xin # NoCall /\ Len(xout) < 2
    /\ \E a1 \in PopulateAnswers, a2 \in PopulateAnswers :
         LET p == Populated(xin.account, xin.chan.device_gid, a1, a2)
         IN  /\ xin' = [xin EXCEPT !.account = p.account, !.called = TRUE]
             /\ xout' = Append(xout,
                    [before |-> xin.account.deviceIdMap,
                     after |-> p.account.deviceIdMap,
                     raise |-> p.raise,
                     name |-> IF p.raise THEN <<>> ELSE lookupChannelName(p.account, xin.chan)])
    /\ UNCHANGED <<cfgVars, running, pauseEvent, history, detailedStartTime, pastDay,
                   usageDataPoints, tickVars, account, loggedIn, usages,
                   historyStartTime, historyEndTime, pc, clock, faults, obsVars, runVars>>

SpecNames == InitNames /\ [][LookupName]_vars

\* ------------------------------------------------------------------- claims
WrittenFor(a) == \E i \in DOMAIN writes : writes[i].account = a
\* a tick has run to its end (the wait of line 395 is over) with no
\* shutdown signal
TickOver == pc = "tick" /\ tickNo > 0 /\ running
\* the tick has just started: no account has been visited yet
TickFresh == pc = "account" /\ account = 1 /\ attempted = {}

\* C1: an exception raised while one logged-in account is processed is
\* caught at that account: it never ends the script, every configured
\* account is still visited in the tick, and every account that did not
\* itself fail has its batch written in that tick.
C1_ErrorIsolated ==
    /\ pc = "fatal" => account \notin loggedIn
    /\ TickOver =>
         /\ attempted = 1..numAccounts
         /\ \A a \in 1..numAccounts : a \notin failed => WrittenFor(a)

\* account 1 failed and account 2 was written in the same tick
C1_Witness ==
    /\ TickOver
    /\ 1 \in failed
    /\ 2 \notin failed /\ WrittenFor(2)

\* C2: a batch written for an account holds only points tagged with that
\* account's name, and no point of an account that failed in the tick.
C2_BatchOwnPoints ==
    \A i \in DOMAIN writes :
        \A j \in DOMAIN writes[i].points :
            /\ writes[i].points[j].account_name = writes[i].account
            /\ writes[i].points[j].account_name \notin failed

Due(kind) ==
    CASE kind = "Seconds" -> SecondsDue
      [] kind = "Hour" -> HourDue
      [] kind = "Day" -> DayDue
      [] kind = "History" -> history

\* C3: a collection that failed for an account in a tick (or whose batch
\* write failed) is due again when the next tick starts.
C3_FailedIsDueAgain ==
    TickFresh => \A a \in 1..numAccounts : \A kind \in retry[a] : Due(kind)

\* C4: in a tick that starts on another local day than the marker's and in
\* which no error occurs, every visited account has its Day rollup
\* collected, and at the end of the tick the marker lies in the tick's day.
C4_DailyRollupPerAccount ==
    (pc = "tickEnd" /\ running /\ failed = {} /\ dayDue) =>
        /\ attempted \subseteq dayCollected
        /\ DayOfMonth(pastDay, accountTimeZone) = DayOfMonth(curDay, accountTimeZone)

\* C8 as stated: the window iteration is entered in at most one tick of
\* the run, and never when no backfill was requested.
C8_EnteredInOneTick ==
    /\ Cardinality(histTicks) <= 1
    /\ historyDays = 0 => histTicks = {}

\* C8 amended: the window iteration finishes (line 377) at most once and
\* is never entered after that; each entry other than the one in progress
\* or the finished one was aborted by an error, so it is entered in a
\* second tick only after an abort; without a request it is never entered.
C8_CompletedOnce ==
    /\ historyDays = 0 => histTicks = {}
    /\ histCompleted <= 1
    /\ histCompleted = 1 => ~history /\ pc \notin {"window", "pause"}
    /\ histEntries = histAborted + histCompleted
                     + (IF pc \in {"window", "pause"} THEN 1 ELSE 0)
    /\ Cardinality(histTicks) <= histAborted + 1

\* an aborted backfill was entered again in a later tick and finished
C8_Witness ==
    /\ histCompleted = 1 /\ histAborted >= 1
    /\ Cardinality(histTicks) = 2

WindowSpan(w) == w[2] - w[1]
\* the backfill of this tick ran through all its windows (no error, no
\* shutdown signal)
BackfillFinished == histCompleted = 1 /\ running /\ windows # <<>>

\* C5 as stated: every backfill window spans at most 20 days.
C5_SpanAtMost20Days ==
    \A i \in DOMAIN windows : WindowSpan(windows[i]) <= HistoryWindowDays * SecondsInADay

\* C5 amended: every backfill window starts at a midnight and ends at a
\* 23:59:59 at most 20 days and 23:59:59 later, so it spans less than 21
\* days; a window that is followed by another is exactly that long.
C5_SpanBelow21Days ==
    \A i \in DOMAIN windows :
        /\ windows[i][1] = Midnight(windows[i][1])
        /\ windows[i][2] = EndOfDay(windows[i][2])
        /\ WindowSpan(windows[i]) <= (HistoryWindowDays + 1) * SecondsInADay - 1
        /\ i < Len(windows) =>
             WindowSpan(windows[i]) = (HistoryWindowDays + 1) * SecondsInADay - 1

\* a backfill of more than 20 days: a full window followed by another
C5_Witness ==
    /\ Len(windows) >= 2
    /\ WindowSpan(windows[1]) > HistoryWindowDays * SecondsInADay

\* C6 as stated: no window ends after the tick's stopTime.
C6_EndAtMostStopTime ==
    \A i \in DOMAIN windows : windows[i][2] <= stopTime

\* C6 amended: no window ends after 23:59:59 of stopTime's day, and the
\* last window of a finished backfill ends exactly there.
C6_EndAtMostStopDay ==
    /\ \A i \in DOMAIN windows : windows[i][2] <= EndOfDay(stopTime)
    /\ BackfillFinished => windows[Len(windows)][2] = EndOfDay(stopTime)

\* a finished backfill whose last window ends after stopTime
C6_Witness ==
    /\ BackfillFinished
    /\ windows[Len(windows)][2] > stopTime

\* C7: the windows of a backfill are contiguous and do not overlap: the
\* first starts at the midnight of stopTime minus historyDays days, each
\* later one starts one second after the previous one's end, no window is
\* empty, and a finished backfill reaches stopTime.
C7_WindowsContiguous ==
    /\ windows # <<>> => windows[1][1] = Midnight(stopTime - historyDays * SecondsInADay)
    /\ \A i \in DOMAIN windows :
          /\ windows[i][1] <= windows[i][2]
          /\ i > 1 => windows[i][1] = windows[i - 1][2] + 1
    /\ BackfillFinished => windows[Len(windows)][2] >= stopTime

\* a finished backfill of three windows or more
C7_Witness ==
    /\ BackfillFinished
    /\ Len(windows) >= 3

\* every channel of a device tree, nested devices included
RECURSIVE AllChannels(_)
AllChannels(device) ==
    UNION {{device.channels[i]}
           \cup UNION {AllChannels(device.channels[i].nested_devices[j]) :
                          j \in DOMAIN device.channels[i].nested_devices} :
           i \in DOMAIN device.channels}

PointsOf(pts, name, detailed) ==
    SelectSeq(pts, LAMBDA p : p.device_name = name /\ p.detailed = detailed)

Extracted == xin.called

\* C9: a channel whose number is excluded never has a get_chart_usage
\* query issued for it, also when seconds detail is due, and still gets
\* its aggregate usage point (the live point, or the "Hour" or "Day"
\* point) whenever its usage is present and the extraction reaches it.
C9_ExcludedChannels ==
    Extracted =>
        /\ \A i \in DOMAIN xout.queries :
              xout.queries[i][1] \notin excludedDetailChannelNumbers
        /\ \A chan \in AllChannels(xin.device) :
              (/\ chan.channel_num \in excludedDetailChannelNumbers
               /\ chan.usage # None /\ xout.ok
               /\ xin.call.pointType \in {"None", "Hour", "Day"})
              => \E i \in DOMAIN xout.pts :
                    /\ xout.pts[i].device_name = lookupChannelName(XCtx.account, chan)
                    /\ xout.pts[i].detailed =
                          (IF xin.call.pointType = "None" THEN "False" ELSE xin.call.pointType)
                    /\ xout.pts[i].usage =
                          (IF xin.call.pointType = "None" THEN 60000 ELSE 1000) * chan.usage[1]

\* seconds detail is due, a channel "1" is queried per second, and the
\* excluded channel beside it yields only its live point
C9_Witness ==
    /\ Extracted /\ xout.ok
    /\ xin.collectDetails /\ detailedSecondsEnabled /\ xin.call.pointType = "None"
    /\ \E i \in DOMAIN xout.queries : xout.queries[i][2] = "Second"
    /\ \E chan \in AllChannels(xin.device) :
          /\ chan.channel_num = "Balance" /\ chan.usage # None
          /\ Len(PointsOf(xout.pts, lookupChannelName(XCtx.account, chan), "False")) = 1
          /\ PointsOf(xout.pts, lookupChannelName(XCtx.account, chan), "True") = <<>>

\* C10: in seconds-detail extraction every position i (counted from 0) of
\* the returned series that holds a value yields a point at
\* detailedStartTime + i seconds, and null positions yield no point.
C10_TimestampAtIndex ==
    (/\ Extracted /\ xout.ok
     /\ xin.collectDetails /\ detailedSecondsEnabled /\ xin.call.pointType = "None")
    => \A chan \in AllChannels(xin.device) :
          chan.channel_num \notin excludedDetailChannelNumbers =>
             LET pts == PointsOf(xout.pts, lookupChannelName(XCtx.account, chan), "True")
                 nonNull == {i \in DOMAIN xin.usage : xin.usage[i] # None}
             IN  /\ Len(pts) = Cardinality(nonNull)
                 /\ \A i \in nonNull :
                       \E k \in DOMAIN pts :
                          /\ pts[k].time = detailedStartTime + (i - 1)
                          /\ pts[k].usage = 3600000 * xin.usage[i][1]

\* ------------------------------------------------------------ termination
\* the loop has ended: line 397 was reached, or a failing login ended the
\* script
Exited == pc \in {"finished", "fatal"}
\* an account is being processed at position p (lines 335-391)
InFlight(p) == p \in {"live", "hour", "day", "history", "window", "pause", "write", "except",
                      "collect"}

SignalInPause ==
    /\ signalled # None
    /\ signalled[1].pc = "pause"
    /\ histEntries = signalled[1].histEntries

\* C12 as stated: after a signal delivered during the pause between two
\* windows no following window is extracted.
C12_NoWindowAfterSignal ==
    SignalInPause => Len(windows) = signalled[1].windows

\* C12 amended: after a signal delivered during the pause at most one
\* following window is extracted, and the iteration is over once that
\* extraction has ended.
C12_OneWindowAfterSignal ==
    SignalInPause =>
        /\ Len(windows) <= signalled[1].windows + 1
        /\ Len(windows) = signalled[1].windows + 1 => pc \notin {"window", "pause"}

\* one window was extracted after a signal delivered during the pause,
\* and the loop has exited
C12_Witness ==
    /\ SignalInPause
    /\ Len(windows) = signalled[1].windows + 1
    /\ pc = "finished"

\* ------------------------------------------------------------- the write
WritesFor(a) == {i \in DOMAIN writes : writes[i].account = a}

\* C13: in a tick the write is invoked at most once per account (the
\* account loop has moved past every account written), exactly once for
\* every account whose sequence ended without error when no signal was
\* seen, and only when every collection due for the account has been
\* done: seconds and hourly detail when collectDetails, the daily rollup
\* when the marker's day differs, the backfill when the flag is set.
C13_WriteOncePerAccount ==
    /\ \A a \in Accounts : Cardinality(WritesFor(a)) <= 1
    /\ \A i \in DOMAIN writes : writes[i].account < account
    /\ TickOver => \A a \in 1..numAccounts :
                      a \notin failed => Cardinality(WritesFor(a)) = 1
    /\ pc = "write" =>
          /\ order # <<>> /\ order[1] = "Live"
          /\ SecondsDue => "Seconds" \in doneKinds
          /\ HourDue => "Hour" \in doneKinds
          /\ ~DayDue
          /\ ~history

\* a tick in which two accounts were written, the second after its
\* seconds and hourly detail
C13_Witness ==
    /\ TickOver
    /\ numAccounts = 2 /\ Len(writes) = 2
    /\ {"Seconds", "Hour"} \subseteq doneKinds

\* ------------------------------------------------------- name resolution
\* the device name a call resolved with: the cached name, or the gid
\* itself when the device is still unknown
DeviceNameAt(call) ==
    IF xin.chan.device_gid \in DOMAIN call.after
    THEN call.after[xin.chan.device_gid]
    ELSE xin.chan.device_gid
\* the override entries for a device name whose list reaches position n
Matching(deviceName, n) ==
    {i \in DOMAIN xin.account.devices :
        /\ xin.account.devices[i].name = deviceName
        /\ Len(xin.account.devices[i].channels) >= n}
First(S) == CHOOSE i \in S : \A j \in S : i <= j

\* C14: a call that returns resolves an integer number n to entry n of
\* the first override list of the device that is long enough, or to
\* "{deviceName}-{n}" when there is none; "1,2,3" to the device name;
\* any other number to "{deviceName}-{number}"; and two calls between
\* which the cache did not change return the same name.
C14_ChannelNameResolution ==
    /\ \A k \in DOMAIN xout :
          LET call == xout[k]
              deviceName == DeviceNameAt(call)
              num == xin.chan.channel_num
          IN  ~call.raise =>
                IF num \in {"1", "2", "3"}
                THEN LET n == CHOOSE v \in 1..3 : <<"1", "2", "3">>[v] = num
                         S == Matching(deviceName, n)
                     IN  IF S # {}
                         THEN call.name = <<xin.account.devices[First(S)].channels[n]>>
                         ELSE call.name = <<deviceName, num>>
                ELSE IF num = "1,2,3" THEN call.name = <<deviceName>>
                ELSE call.name = <<deviceName, num>>
    /\ (Len(xout) = 2 /\ ~xout[1].raise /\ ~xout[2].raise /\ xout[1].after = xout[2].after)
          => xout[1].name = xout[2].name

\* channel "3" of "Kitchen" with the two-entry list falls back to
\* "Kitchen-3", in both of two calls
C14_Witness ==
    /\ Len(xout) = 2
    /\ xin.chan.channel_num = "3"
    /\ Len(xin.account.devices) = 1 /\ Len(xin.account.devices[1].channels) = 2
    /\ xout[1].name = <<"Kitchen", "3">> /\ xout[2].name = <<"Kitchen", "3">>

\* ------------------------------------------------------ detail collection
\* the checkpoint the detail ticks so far leave behind: the startup time,
\* or one second after the stop time of the last of the first n of them
CheckpointAfter(n) == IF n = 0 THEN startupTime ELSE detailTicks[n][2] + 1
InTick == pc \notin {"tick", "finished"}

\* C15: a tick collects detail exactly when detail is enabled, the
\* interval is positive and stopTime - detailedStartTime has reached it;
\* the checkpoint is stopTime + 1 after a detail tick and is not moved by
\* any other tick; so the stop times of consecutive detail ticks are more
\* than an interval apart and the first is an interval after startup.
C15_DetailSchedule ==
    /\ (InTick /\ tickNo > 0) =>
          /\ collectDetails = (/\ detailedDataEnabled
                               /\ detailedIntervalSecs > 0
                               /\ stopTime - detailedStartTime >= detailedIntervalSecs)
          /\ detailedStartTime =
                CheckpointAfter(Len(detailTicks) - (IF collectDetails THEN 1 ELSE 0))
          /\ collectDetails =>
                detailTicks[Len(detailTicks)] = <<detailedStartTime, stopTime>>
    /\ ~InTick => detailedStartTime = CheckpointAfter(Len(detailTicks))
    /\ \A i \in DOMAIN detailTicks :
          /\ detailTicks[i][1] = CheckpointAfter(i - 1)
          /\ detailTicks[i][2] - detailTicks[i][1] >= detailedIntervalSecs
          /\ detailTicks[i][2] - startupTime >= detailedIntervalSecs
          /\ i > 1 => detailTicks[i][2] - detailTicks[i - 1][2] > detailedIntervalSecs

\* two detail ticks have ended, after a first tick without detail
C15_Witness ==
    /\ pc = "tick" /\ tickNo = 3
    /\ Len(detailTicks) = 2
    /\ detailedStartTime = detailTicks[2][2] + 1

\* --------------------------------------------------- order of collections
KindRank(kind) ==
    CASE kind = "Live" -> 1 [] kind = "Hour" -> 2 [] kind = "Day" -> 3 [] kind = "History" -> 4
\* the positions after the live query, the hourly step and the daily step
AfterLive == {"hour", "day", "history", "window", "pause", "write", "except"}
AfterHour == {"day", "history", "window", "pause", "write"}
AfterDay == {"history", "window", "pause", "write"}

\* C16: for the account in progress the live query comes first and its
\* points carry stopTime; the hourly, daily and backfill collections are
\* started at most once each, in that order, and none that is due is
\* passed over.
C16_CollectionOrder ==
    /\ pc = "live" => order = <<>>
    /\ pc \in AfterLive => order # <<>> /\ order[1] = "Live"
    /\ \A i \in DOMAIN order : i > 1 => KindRank(order[i - 1]) < KindRank(order[i])
    /\ \A i \in DOMAIN usageDataPoints :
          usageDataPoints[i].detailed = "False" => usageDataPoints[i].time = stopTime
    /\ (pc \in AfterHour /\ HourDue) => order[2] = "Hour"
    /\ pc \in AfterDay => ~DayDue
    /\ pc \in {"window", "pause"} => order[Len(order)] = "History"
    /\ pc = "write" => ~history

\* an account reaches its write after all four collections
C16_Witness ==
    /\ pc = "write"
    /\ order = <<"Live", "Hour", "Day", "History">>

\* ----------------------------------------------------- per-second windows
\* the window of a per-second query <<tick, account, start, end>>
QueryWindow(q) == <<q[3], q[4]>>

\* C17: every per-second query is issued over the window of its detail
\* tick, the same for every account of the tick; the first detail window
\* starts at the startup time, every later one a second after the stop
\* time of the detail tick before it; no window is empty and the windows
\* of different ticks do not overlap.
C17_SecondWindowsTile ==
    /\ \A i \in DOMAIN detailTicks :
          /\ detailTicks[i][1] <= detailTicks[i][2]
          /\ i = 1 => detailTicks[i][1] = startupTime
          /\ i > 1 => detailTicks[i][1] = detailTicks[i - 1][2] + 1
    /\ \A q \in secQueries : \E i \in DOMAIN detailTicks : QueryWindow(q) = detailTicks[i]
    /\ \A q1 \in secQueries : \A q2 \in secQueries :
          /\ q1[1] = q2[1] => QueryWindow(q1) = QueryWindow(q2)
          /\ q1[1] < q2[1] => q1[4] < q2[3]

\* both accounts were queried per second in one detail tick, and an
\* account again in the next
C17_Witness ==
    /\ \E q1 \in secQueries : \E q2 \in secQueries : q1[1] = q2[1] /\ q1[2] # q2[2]
    /\ \E q1 \in secQueries : \E q2 \in secQueries : q1[1] < q2[1]

\* ------------------------------------------------- backfill and accounts
\* <<tick, account>> pairs in the order the loop visits them
Later(e, d) == e[1] > d[1] \/ (e[1] = d[1] /\ e[2] > d[2])

\* C18: the window iteration runs to its end (line 377) for at most one
\* account in the whole run; from then on the flag is false, and no
\* account visited later, in that tick or a later one, has a backfill
\* window extracted.
C18_BackfillForOneAccount ==
    /\ Cardinality(histDone) <= 1
    /\ histDone # {} => ~history
    /\ \A d \in histDone : \A e \in histExtracted : ~Later(e, d)

\* two accounts: the first finished the backfill in the first tick, the
\* second was written in two ticks without a backfill window
C18_Witness ==
    /\ numAccounts = 2 /\ historyDays > 0
    /\ histDone = {<<1, 1>>} /\ histExtracted = {<<1, 1>>}
    /\ TickOver /\ tickNo = 2
    /\ WrittenFor(2)

\* ------------------------------------------------------------ hourly detail
\* C19: the hours queried by successive hourly-detail collections are
\* consecutive: each is the hour after the one queried before it.
C19_HoursConsecutive ==
    \A i \in DOMAIN hoursQueried :
        i > 1 => hoursQueried[i] = hoursQueried[i - 1] + SecondsInAnHour

\* -------------------------------------------------- backfill termination
\* windows a backfill of n days is split into
WindowsFor(n) == (n \div (HistoryWindowDays + 1)) + 1

\* each window starts at least a day after the one before it, a backfill
\* of N days extracts at most N div 21 + 1 windows, and it ends with the
\* next start beyond stopTime
WindowsAdvance ==
    /\ \A i \in DOMAIN windows :
          i > 1 => windows[i][1] >= windows[i - 1][1] + SecondsInADay
    /\ Len(windows) <= WindowsFor(historyDays)
    /\ histCompleted = 1 =>
          /\ historyStartTime > stopTime
          /\ Len(windows) = WindowsFor(historyDays)

\* C20: when every extraction returns, every iteration moves the window
\* start forward by at least a day, the number of windows is bounded, and
\* the iteration ends: line 377 is reached and the flag cleared.
C20_BackfillTerminates ==
    /\ []WindowsAdvance
    /\ <>(histCompleted = 1 /\ ~history)

\* a backfill of 720 days has ended after 35 windows
C20_Witness ==
    /\ historyDays = MaxHistoryDays
    /\ histCompleted = 1
    /\ Len(windows) = 35
====
